---- MODULE Spec2Model ----
(***************************************************************************)
(* Model of the dependency-graph engine of scanner.py: to_fqn,             *)
(* resolve_from_import, strongly_connected_components, ImportScanner and   *)
(* export_dot, and of the handlers of ImportTreeViewer that drive them.    *)
(*                                                                         *)
(* A Python str is modelled as a sequence of one-character strings, so     *)
(* that str.split, str.join, str.endswith and slicing are computed and not *)
(* assumed.  "a.b" is <<"a", ".", "b">> and "" is <<>>.  An optional value *)
(* (str | None) is a sequence of length 0 (None) or 1.                     *)
(***************************************************************************)
EXTENDS Integers, Sequences, FiniteSets, TLC

VARIABLES
    root,               \* what scanner.project_root names on disk: [kind, tree]
    module_info,        \* ImportScanner.module_info, a dict in insertion order
    local_packages,     \* ImportScanner.local_packages
    all_local_modules,  \* ImportScanner.all_local_modules
    lastOp,             \* the last operation on the scanner
    rIn, rOut,          \* resolve_from_import: the call's arguments, its result
    gIn, gOut,          \* strongly_connected_components: the graph, the result
    dot_str,            \* export_dot: the text returned to the last caller
    str_hashing,        \* the str hashing of the process, as far as that text
                        \* shows it: the order of each set export_dot iterated
    pc                  \* where the viewer is: "idle", or "warning" while
                        \* generate_graph waits in its QMessageBox.warning

vars == <<root, module_info, local_packages, all_local_modules, lastOp,
          rIn, rOut, gIn, gOut, dot_str, str_hashing, pc>>

exportVars == <<dot_str, str_hashing, pc>>

scannerVars == <<root, module_info, local_packages, all_local_modules, lastOp>>

------------------------------------------------------------------------------
(* Python built-ins                                                         *)

Range(s) == {s[i] : i \in 1..Len(s)}

Min(a, b) == IF a <= b THEN a ELSE b

Max(a, b) == IF a >= b THEN a ELSE b

\* seq[:stop] for an int stop (negative counts from the end, both clipped).
PySliceTo(seq, stop) ==
    LET n == Len(seq)
        e == IF stop < 0 THEN Max(n + stop, 0) ELSE Min(stop, n)
    IN  SubSeq(seq, 1, e)

\* The injective sequences over S of length at most n.
RECURSIVE InjSeqs(_, _)
InjSeqs(S, n) ==
    IF n = 0 THEN {<<>>}
    ELSE LET shorter == InjSeqs(S, n - 1)
         IN  shorter \cup
             {Append(q, x) : <<q, x>> \in
                 {p \in shorter \X S : Len(p[1]) = n - 1 /\ p[2] \notin Range(p[1])}}

\* Index of the first "." of s, 0 when there is none.
RECURSIVE FirstDot(_, _)
FirstDot(s, i) ==
    IF i > Len(s) THEN 0
    ELSE IF s[i] = "." THEN i ELSE FirstDot(s, i + 1)

\* s.split(".")
RECURSIVE SplitDot(_)
SplitDot(s) ==
    LET i == FirstDot(s, 1)
    IN  IF i = 0 THEN <<s>>
        ELSE <<SubSeq(s, 1, i - 1)>> \o SplitDot(SubSeq(s, i + 1, Len(s)))

\* ".".join(parts)
RECURSIVE JoinDot(_)
JoinDot(parts) ==
    IF parts = <<>> THEN <<>>
    ELSE IF Len(parts) = 1 THEN parts[1]
    ELSE parts[1] \o <<".">> \o JoinDot(Tail(parts))

\* s.endswith(suf)
EndsWith(s, suf) ==
    /\ Len(s) >= Len(suf)
    /\ SubSeq(s, Len(s) - Len(suf) + 1, Len(s)) = suf

------------------------------------------------------------------------------
(* resolve_from_import                                                      *)

\* Truth value of a str | None: None and "" are false.
Truthy(opt) == Len(opt) = 1 /\ Len(opt[1]) > 0

\* resolve_from_import with the slice written pkg_parts[:-level].
resolve_from_import_OffByOne(current_fqn, level, module) ==
    LET pkg0 == PySliceTo(SplitDot(current_fqn), -1)
        pkg_parts ==
            IF level # 0
            THEN (IF level > 1 THEN PySliceTo(pkg0, -level) ELSE pkg0)
            ELSE pkg0
    IN  IF Truthy(module)
        THEN JoinDot(pkg_parts \o <<module[1]>>)
        ELSE JoinDot(pkg_parts)

resolve_from_import(current_fqn, level, module) ==
    LET pkg0 == PySliceTo(SplitDot(current_fqn), -1)
        pkg_parts ==
            IF level # 0
            THEN (IF level > 1 THEN PySliceTo(pkg0, -level + 1) ELSE pkg0)
            ELSE pkg0
    IN  IF Truthy(module)
        THEN JoinDot(pkg_parts \o <<module[1]>>)
        ELSE JoinDot(pkg_parts)

------------------------------------------------------------------------------
(* strongly_connected_components                                            *)
(*                                                                          *)
(* A graph (a dict of sets) is [keys, succ]: keys is the dict's iteration   *)
(* order and succ[k] the order in which the set graph[k] is iterated.       *)

EmptyDict == [x \in {} |-> 0]

\* d[k] = v
DictSet(d, k, v) == [x \in DOMAIN d \cup {k} |-> IF x = k THEN v ELSE d[x]]

\* graph.get(v, ())
GraphGet(graph, v) == IF v \in Range(graph.keys) THEN graph.succ[v] ELSE <<>>

\* PopComponent with "len(comp) > 1" written "len(comp) > 0".
RECURSIVE PopComponent_KeepsSingletons(_, _, _)
PopComponent_KeepsSingletons(v, st, comp) ==
    LET w     == st.stack[Len(st.stack)]
        st1   == [st EXCEPT !.stack = SubSeq(@, 1, Len(@) - 1),
                            !.onstack = @ \ {w}]
        comp1 == Append(comp, w)
    IN  IF w = v
        THEN (IF Len(comp1) > 0 THEN [st1 EXCEPT !.sccs = Append(@, comp1)] ELSE st1)
        ELSE PopComponent_KeepsSingletons(v, st1, comp1)

\* The while-True loop of dfs: pop the stack down to and including v.
RECURSIVE PopComponent(_, _, _)
PopComponent(v, st, comp) ==
    LET w     == st.stack[Len(st.stack)]
        st1   == [st EXCEPT !.stack = SubSeq(@, 1, Len(@) - 1),
                            !.onstack = @ \ {w}]
        comp1 == Append(comp, w)
    IN  IF w = v
        THEN (IF Len(comp1) > 1 THEN [st1 EXCEPT !.sccs = Append(@, comp1)] ELSE st1)
        ELSE PopComponent(v, st1, comp1)

\* dfs(v), and DfsLoop the rest ws of its loop "for w in graph.get(v, ())".
RECURSIVE dfs(_, _, _), DfsLoop(_, _, _, _)
dfs(graph, v, st) ==
    LET st1 == [st EXCEPT !.indices = DictSet(@, v, st.index),
                          !.lowlink = DictSet(@, v, st.index),
                          !.index = @ + 1,
                          !.stack = Append(@, v),
                          !.onstack = @ \cup {v}]
        st2 == DfsLoop(graph, v, GraphGet(graph, v), st1)
    IN  IF st2.lowlink[v] = st2.indices[v]
        THEN PopComponent(v, st2, <<>>)
        ELSE st2

DfsLoop(graph, v, ws, st) ==
    IF ws = <<>> THEN st
    ELSE LET w == Head(ws)
             st1 == IF w \notin DOMAIN st.indices
                    THEN LET s == dfs(graph, w, st)
                         IN  [s EXCEPT !.lowlink =
                                 DictSet(@, v, Min(s.lowlink[v], s.lowlink[w]))]
                    ELSE IF w \in st.onstack
                    THEN [st EXCEPT !.lowlink =
                             DictSet(@, v, Min(st.lowlink[v], st.indices[w]))]
                    ELSE st
         IN  DfsLoop(graph, v, Tail(ws), st1)

\* The loop "for v in graph" over the rest vs of the keys.
RECURSIVE SccLoop(_, _, _)
SccLoop(graph, vs, st) ==
    IF vs = <<>> THEN st
    ELSE SccLoop(graph, Tail(vs),
                 IF Head(vs) \notin DOMAIN st.indices
                 THEN dfs(graph, Head(vs), st) ELSE st)

strongly_connected_components(graph) ==
    SccLoop(graph, graph.keys,
            [index |-> 0, stack |-> <<>>, onstack |-> {},
             indices |-> EmptyDict, lowlink |-> EmptyDict, sccs |-> <<>>]).sccs

------------------------------------------------------------------------------
(* Source files                                                             *)
(*                                                                          *)
(* A file's content is [parsed, body]: parsed is FALSE when open() or       *)
(* ast.parse() raises, and body is the Module node's statement list.  A     *)
(* statement is an Import (names), an ImportFrom (level, module) or a Block *)
(* (a def, class, if, try, ... with a body of statements).  Nodes that hold *)
(* no statement (alias, expressions) are left out of the tree: ast.walk     *)
(* yields them and _scan_file skips them.                                   *)

Import(names) ==
    [kind |-> "Import", names |-> names, level |-> 0, module |-> <<>>, body |-> <<>>]

ImportFrom(level, module) ==
    [kind |-> "ImportFrom", names |-> <<>>, level |-> level, module |-> module,
     body |-> <<>>]

Block(body) ==
    [kind |-> "Block", names |-> <<>>, level |-> 0, module |-> <<>>, body |-> body]

\* ast.iter_child_nodes(node), in field order.
IterChildNodes(node) == node.body

\* ast.walk: todo is the deque; pop left, extend with the children, yield.
RECURSIVE AstWalk(_)
AstWalk(todo) ==
    IF todo = <<>> THEN <<>>
    ELSE <<Head(todo)>> \o AstWalk(Tail(todo) \o IterChildNodes(Head(todo)))

\* The loop of _scan_file over the rest nodes of ast.walk(tree): the targets
\* appended to module_info[fqn]["imports"].
RECURSIVE CollectImports(_, _, _)
CollectImports(nodes, fqn, imports) ==
    IF nodes = <<>> THEN imports
    ELSE LET node == Head(nodes)
             imports1 ==
                 IF node.kind = "Import" THEN imports \o node.names
                 ELSE IF node.kind = "ImportFrom"
                 THEN Append(imports, resolve_from_import(fqn, node.level, node.module))
                 ELSE imports
         IN  CollectImports(Tail(nodes), fqn, imports1)

------------------------------------------------------------------------------
(* The project tree and to_fqn                                              *)
(*                                                                          *)
(* A directory is [files, dirs]: files the non-directory entries in the     *)
(* order os.walk lists them, each [name, content]; dirs the subdirectories  *)
(* in that order, each [name, dir].  A path is the sequence of its          *)
(* components relative to the project root.                                 *)

PY == <<".", "p", "y">>

INIT_PY == <<"_", "_", "i", "n", "i", "t", "_", "_", ".", "p", "y">>

PYVENV_CFG == <<"p", "y", "v", "e", "n", "v", ".", "c", "f", "g">>

FileNames(dir) == {dir.files[i].name : i \in 1..Len(dir.files)}

\* Index of the last "." of s, 0 when there is none (str.rfind + 1).
RECURSIVE LastDot(_, _)
LastDot(s, i) ==
    IF i = 0 THEN 0
    ELSE IF s[i] = "." THEN i ELSE LastDot(s, i - 1)

\* PurePath.with_suffix("") on the last component.
WithSuffixEmpty(name) ==
    LET i == LastDot(name, Len(name))
    IN  IF 1 < i /\ i < Len(name) THEN SubSeq(name, 1, i - 1) ELSE name

\* to_fqn(project_root, file_path), file_path given relative to project_root.
to_fqn(path) ==
    JoinDot(SubSeq(path, 1, Len(path) - 1) \o <<WithSuffixEmpty(path[Len(path)])>>)

------------------------------------------------------------------------------
(* ImportScanner                                                            *)
(*                                                                          *)
(* module_info is a dict kept in insertion order: [keys, val].  A record is *)
(* [path, imports] when scan creates it and gains internal_imports and      *)
(* external_imports in _categorize_imports.  The scanner's three attributes *)
(* travel together as [module_info, local_packages, all_local_modules].     *)

EmptyInfo == [keys |-> <<>>, val |-> EmptyDict]

\* module_info[k] = v: a new key goes last, a known key keeps its place.
InfoPut(info, k, v) ==
    [keys |-> IF k \in Range(info.keys) THEN info.keys ELSE Append(info.keys, k),
     val  |-> DictSet(info.val, k, v)]

IsSource(file) == EndsWith(file.name, PY)

\* _find_local_packages_and_modules: the loop body for one directory, then
\* os.walk's descent into every subdirectory (nothing is pruned here).
RECURSIVE SurveyWalk(_, _, _), SurveyDirs(_, _, _)
SurveyWalk(dir, rel, cat) ==
    LET pkgs == IF INIT_PY \in FileNames(dir)
                THEN cat.local_packages \cup {JoinDot(rel)}
                ELSE cat.local_packages
        mods == cat.all_local_modules \cup
                {to_fqn(Append(rel, dir.files[i].name)) :
                    i \in {j \in 1..Len(dir.files) : IsSource(dir.files[j])}}
    IN  SurveyDirs(dir.dirs, rel, [local_packages |-> pkgs, all_local_modules |-> mods])

SurveyDirs(dirs, rel, cat) ==
    IF dirs = <<>> THEN cat
    ELSE SurveyDirs(Tail(dirs), rel,
                    SurveyWalk(Head(dirs).dir, Append(rel, Head(dirs).name), cat))

find_local_packages_and_modules(tree) ==
    SurveyWalk(tree, <<>>, [local_packages |-> {}, all_local_modules |-> {}])

\* _scan_file(path, fqn): appends to module_info[fqn]["imports"], or returns
\* at once when reading or parsing raises.
scan_file(info, content, fqn) ==
    IF ~content.parsed THEN info
    ELSE [info EXCEPT !.val[fqn].imports =
             CollectImports(AstWalk(<<Block(content.body)>>), fqn, @)]

\* The loop "for file in files" of scan over the rest of a directory's files.
RECURSIVE ScanFiles(_, _, _)
ScanFiles(files, rel, info) ==
    IF files = <<>> THEN info
    ELSE LET file == Head(files)
             path == Append(rel, file.name)
             fqn  == to_fqn(path)
             info1 == IF IsSource(file)
                      THEN scan_file(InfoPut(info, fqn, [path |-> path, imports |-> <<>>]),
                                     file.content, fqn)
                      ELSE info
         IN  ScanFiles(Tail(files), rel, info1)

\* The second walk of scan: a directory holding pyvenv.cfg is skipped with
\* its dirs list emptied, so that os.walk descends no further.
RECURSIVE ScanWalk(_, _, _), ScanDirs(_, _, _)
ScanWalk(dir, rel, info) ==
    IF PYVENV_CFG \in FileNames(dir) THEN info
    ELSE ScanDirs(dir.dirs, rel, ScanFiles(dir.files, rel, info))

ScanDirs(dirs, rel, info) ==
    IF dirs = <<>> THEN info
    ELSE ScanDirs(Tail(dirs), rel,
                  ScanWalk(Head(dirs).dir, Append(rel, Head(dirs).name), info))

\* IsInternal with the whole name, not its first segment, looked up in
\* local_packages.
IsInternal_WholeName(imported_name, cat) ==
    \/ imported_name \in cat.all_local_modules
    \/ imported_name \in cat.local_packages

\* The test of _categorize_imports for one imported name.
IsInternal(imported_name, cat) ==
    \/ imported_name \in cat.all_local_modules
    \/ SplitDot(imported_name)[1] \in cat.local_packages

\* CategorizeList with the "else" lost: every name is appended to
\* external_imports.
RECURSIVE CategorizeList_NoElse(_, _, _)
CategorizeList_NoElse(imports, cat, acc) ==
    IF imports = <<>> THEN acc
    ELSE CategorizeList_NoElse(Tail(imports), cat,
            IF IsInternal(Head(imports), cat)
            THEN [acc EXCEPT !.internal = Append(@, Head(imports)),
                             !.external = Append(@, Head(imports))]
            ELSE [acc EXCEPT !.external = Append(@, Head(imports))])

\* The inner loop of _categorize_imports: [internal, external] for the rest.
RECURSIVE CategorizeList(_, _, _)
CategorizeList(imports, cat, acc) ==
    IF imports = <<>> THEN acc
    ELSE CategorizeList(Tail(imports), cat,
            IF IsInternal(Head(imports), cat)
            THEN [acc EXCEPT !.internal = Append(@, Head(imports))]
            ELSE [acc EXCEPT !.external = Append(@, Head(imports))])

categorize_imports(info, cat) ==
    [keys |-> info.keys,
     val  |-> [fqn \in DOMAIN info.val |->
                 LET data == info.val[fqn]
                     lists == CategorizeList(data.imports, cat,
                                             [internal |-> <<>>, external |-> <<>>])
                 IN  [path |-> data.path, imports |-> data.imports,
                      internal_imports |-> lists.internal,
                      external_imports |-> lists.external]]]

\* module_info.clear()
Cleared(info) == EmptyInfo

\* scan with _categorize_imports run before the catalog is rebuilt.
scan_StaleCatalog(st, r) ==
    IF r.kind # "dir"
    THEN [st EXCEPT !.module_info = Cleared(@)]
    ELSE LET cat  == find_local_packages_and_modules(r.tree)
             info == ScanWalk(r.tree, <<>>, Cleared(st.module_info))
         IN  [module_info       |-> categorize_imports(info,
                                        [local_packages |-> st.local_packages,
                                         all_local_modules |-> st.all_local_modules]),
              local_packages    |-> cat.local_packages,
              all_local_modules |-> cat.all_local_modules]

\* scan(), on the scanner st with project_root naming r on disk.
scan(st, r) ==
    IF r.kind # "dir"
    THEN [st EXCEPT !.module_info = Cleared(@)]
    ELSE LET cat  == find_local_packages_and_modules(r.tree)
             info == ScanWalk(r.tree, <<>>, Cleared(st.module_info))
         IN  [module_info       |-> categorize_imports(info, cat),
              local_packages    |-> cat.local_packages,
              all_local_modules |-> cat.all_local_modules]

\* The distinct elements of list, in the order of their first occurrence.
RECURSIVE Distinct(_, _)
Distinct(list, seen) ==
    IF list = <<>> THEN seen
    ELSE Distinct(Tail(list),
                  IF Head(list) \in Range(seen) THEN seen ELSE Append(seen, Head(list)))

\* The orders in which set(list) can be iterated: the hash of a str, and
\* with it the place of each element, changes with PYTHONHASHSEED.
SetOrders(list) ==
    LET n == Cardinality(Range(list))
    IN  {p \in InjSeqs(Range(list), n) : Len(p) = n}

\* The str hashing of one process, as far as it is seen: for each list of
\* lists, the order in which set(list) is iterated in that process.
RECURSIVE Hashings(_)
Hashings(lists) ==
    IF lists = {} THEN {EmptyDict}
    ELSE LET list == CHOOSE l \in lists : TRUE
         IN  {DictSet(h, list, p) : h \in Hashings(lists \ {list}), p \in SetOrders(list)}

\* Iteration order of set(list) in a process with the str hashing hashing
\* (for a list it does not tell of, the order of first occurrence).
SetIter(list, hashing) ==
    IF list \in DOMAIN hashing THEN hashing[list] ELSE Distinct(list, <<>>)

\* data.get("internal_imports", [])
GetInternal(data) ==
    IF "internal_imports" \in DOMAIN data THEN data.internal_imports ELSE <<>>

\* build_graph reading "imports" in place of "internal_imports".
build_graph_AllImports(info, hashing) ==
    [keys |-> info.keys,
     succ |-> [mod \in DOMAIN info.val |-> SetIter(info.val[mod].imports, hashing)]]

build_graph(info, hashing) ==
    [keys |-> info.keys,
     succ |-> [mod \in DOMAIN info.val |->
                  SetIter(GetInternal(info.val[mod]), hashing)]]

\* The lists build_graph makes sets of.
InternalLists(info) == {GetInternal(info.val[mod]) : mod \in Range(info.keys)}

find_cycles(info, hashing) ==
    strongly_connected_components(build_graph(info, hashing))

\* The data export_json serialises.
Snapshot(info, hashing) ==
    [modules |-> info, cycles |-> find_cycles(info, hashing)]

------------------------------------------------------------------------------
(* export_dot                                                               *)
(*                                                                          *)
(* The text is a sequence of characters like every other string here, a     *)
(* line break being the character "\n".                                     *)

LowerCase ==
    <<"a", "b", "c", "d", "e", "f", "g", "h", "i", "j", "k", "l", "m",
      "n", "o", "p", "q", "r", "s", "t", "u", "v", "w", "x", "y", "z">>

\* ord(ch) for the characters of module names.
Ord(ch) ==
    IF ch = "." THEN 46
    ELSE IF ch = "_" THEN 95
    ELSE 96 + CHOOSE i \in 1..Len(LowerCase) : LowerCase[i] = ch

\* s < t for two str.
RECURSIVE StrLess(_, _)
StrLess(s, t) ==
    IF t = <<>> THEN FALSE
    ELSE IF s = <<>> THEN TRUE
    ELSE IF Head(s) = Head(t) THEN StrLess(Tail(s), Tail(t))
    ELSE Ord(Head(s)) < Ord(Head(t))

\* sorted(list(S)) for a set of str.
RECURSIVE Sorted(_)
Sorted(S) ==
    IF S = {} THEN <<>>
    ELSE LET least == CHOOSE x \in S : \A y \in S \ {x} : StrLess(x, y)
         IN  <<least>> \o Sorted(S \ {least})

\* data.get("external_imports", [])
GetExternal(data) ==
    IF "external_imports" \in DOMAIN data THEN data.external_imports ELSE <<>>

\* data.get("imports")
GetImports(data) ==
    IF "imports" \in DOMAIN data THEN data.imports ELSE <<>>

\* The combined graph of export_dot: each module to set(all_deps), the set
\* in its iteration order.
ExportGraph(info, hashing) ==
    [keys |-> info.keys,
     succ |-> [mod \in DOMAIN info.val |->
                  SetIter(GetInternal(info.val[mod]) \o GetExternal(info.val[mod]),
                          hashing)]]

\* The lists export_dot makes the sets of its graph of.
ExportLists(info) ==
    {GetInternal(info.val[mod]) \o GetExternal(info.val[mod]) : mod \in Range(info.keys)}

\* {frozenset(c) for c in scanner.find_cycles()}
CycleSets(info, hashing) == {Range(c) : c \in Range(find_cycles(info, hashing))}

\* '__init__'
DUNDER_INIT == <<"_", "_", "i", "n", "i", "t", "_", "_">>

\* Whether the first loop of export_dot adds mod to nodes_to_display.
IsDisplayedModule(info, mod) ==
    \/ ~(EndsWith(mod, <<".">> \o DUNDER_INIT) \/ mod = DUNDER_INIT)
    \/ GetImports(info.val[mod]) # <<>>

\* nodes_to_display after both loops.
NodesToDisplay(info, hashing) ==
    LET graph == ExportGraph(info, hashing)
    IN  {mod \in Range(info.keys) : IsDisplayedModule(info, mod)}
            \cup UNION {Range(graph.succ[mod]) : mod \in Range(graph.keys)}

GRAY == <<"g", "r", "a", "y">>

RED == <<"r", "e", "d">>

\* The colour of a declared node.
NodeColor(cycles, mod) ==
    IF \E cycle \in cycles : mod \in cycle THEN RED ELSE GRAY

QUOTE == <<"\"">>

NODE_ATTRS_OPEN ==
    <<"\"", " ", "[", "s", "h", "a", "p", "e", "=", "b", "o", "x", ",",
      " ", "s", "t", "y", "l", "e", "=", "f", "i", "l", "l", "e", "d",
      ",", " ", "f", "i", "l", "l", "c", "o", "l", "o", "r", "=", "\"">>

NODE_ATTRS_CLOSE == <<"\"", "]", ";">>

ARROW == <<"\"", " ", "-", ">", " ", "\"">>

EDGE_CLOSE == <<"\"", ";">>

\* f'"{mod}" [shape=box, style=filled, fillcolor="{color}"];'
NodeLine(mod, color) ==
    QUOTE \o mod \o NODE_ATTRS_OPEN \o color \o NODE_ATTRS_CLOSE

\* f'"{src}" -> "{dst}";'
EdgeLine(src, dst) == QUOTE \o src \o ARROW \o dst \o EDGE_CLOSE

DIGRAPH_OPEN ==
    <<"d", "i", "g", "r", "a", "p", "h", " ", "i", "m", "p", "o", "r", "t",
      "s", " ", "{">>

RANKDIR ==
    <<"r", "a", "n", "k", "d", "i", "r", "=", "L", "R", ";">>

DIGRAPH_CLOSE == <<"}">>

\* The node lines, for the rest mods of the sorted nodes.
RECURSIVE NodeLines(_, _)
NodeLines(cycles, mods) ==
    IF mods = <<>> THEN <<>>
    ELSE <<NodeLine(Head(mods), NodeColor(cycles, Head(mods)))>>
             \o NodeLines(cycles, Tail(mods))

\* The edge lines of one src, for the rest dests of its targets.
RECURSIVE EdgeLinesOf(_, _, _)
EdgeLinesOf(src, dests, nodes) ==
    IF dests = <<>> THEN <<>>
    ELSE (IF Head(dests) \in nodes THEN <<EdgeLine(src, Head(dests))>> ELSE <<>>)
             \o EdgeLinesOf(src, Tail(dests), nodes)

\* The edge lines, for the rest srcs of graph.items().
RECURSIVE EdgeLines(_, _, _)
EdgeLines(graph, srcs, nodes) ==
    IF srcs = <<>> THEN <<>>
    ELSE (IF Head(srcs) \in nodes
          THEN EdgeLinesOf(Head(srcs), graph.succ[Head(srcs)], nodes)
          ELSE <<>>)
             \o EdgeLines(graph, Tail(srcs), nodes)

\* "\n".join(lines)
RECURSIVE JoinLines(_)
JoinLines(lines) ==
    IF lines = <<>> THEN <<>>
    ELSE IF Len(lines) = 1 THEN lines[1]
    ELSE lines[1] \o <<"\n">> \o JoinLines(Tail(lines))

\* export_dot(scanner), scanner.module_info being info, in a process with
\* the str hashing hashing.
export_dot(info, hashing) ==
    LET graph == ExportGraph(info, hashing)
        cycles == CycleSets(info, hashing)
        nodes_to_display == NodesToDisplay(info, hashing)
    IN  JoinLines(<<DIGRAPH_OPEN, RANKDIR>>
                      \o NodeLines(cycles, Sorted(nodes_to_display))
                      \o EdgeLines(graph, graph.keys, nodes_to_display)
                      \o <<DIGRAPH_CLOSE>>)

------------------------------------------------------------------------------
(* The project trees explored                                               *)

MaxFiles == 3       \* files in the whole tree

ViewFiles == 2      \* the same, where the viewer draws the graph of each scan

\* Names of import targets and of files.
A == <<"a">>

A_A == <<"a", ".", "a">>

C == <<"c">>

INIT == <<"_", "_", "i", "n", "i", "t", "_", "_">>

A_PY == A \o PY

A_A_PY == A_A \o PY

\* The name a directory takes at each level below the project root.
DirLevels == <<A>>

SourceNames == {A_PY, A_A_PY, INIT_PY}

\* A file that cannot be read or parsed.
Unparsable == [parsed |-> FALSE, body |-> <<>>]

\* def f(): import a
\* import a.a, c
\* from . import x
\* import c
Nested == [parsed |-> TRUE,
           body |-> <<Block(<<Import(<<A>>)>>), Import(<<A_A, C>>),
                      ImportFrom(1, <<>>), Import(<<C>>)>>]

\* from .__init__ import x
\* from ..c import y
Relative == [parsed |-> TRUE,
             body |-> <<ImportFrom(1, <<INIT>>), ImportFrom(2, <<C>>)>>]

Contents == {Unparsable, Nested, Relative}

FileChoices ==
    {[name |-> n, content |-> c] : n \in SourceNames, c \in Contents}
        \cup {[name |-> PYVENV_CFG, content |-> Unparsable]}

EmptyDir == [files |-> <<>>, dirs |-> <<>>]

RECURSIVE CountFiles(_), CountFilesIn(_)
CountFiles(dir) == Len(dir.files) + CountFilesIn(dir.dirs)

CountFilesIn(dirs) ==
    IF dirs = <<>> THEN 0 ELSE CountFiles(Head(dirs).dir) + CountFilesIn(Tail(dirs))

\* seq without its i-th element.
RemoveAt(seq, i) == SubSeq(seq, 1, i - 1) \o SubSeq(seq, i + 1, Len(seq))

\* seq with x as its i-th element.
InsertAt(seq, i, x) == SubSeq(seq, 1, i - 1) \o <<x>> \o SubSeq(seq, i, Len(seq))

\* The directories one change away from dir: a file created (listed at any
\* place among the others, as the file system has it) or deleted, a
\* subdirectory created with a first file or removed with all it holds, or
\* one such change further down.  room is the number of files the
\* tree may still take, level the number of directories from the root to dir.
RECURSIVE DirEdits(_, _, _)
DirEdits(dir, level, room) ==
    UNION {{[dir EXCEPT !.files = InsertAt(@, i, f)] : i \in 1..(Len(dir.files) + 1)} :
              f \in {g \in FileChoices : room > 0 /\ g.name \notin FileNames(dir)}}
    \cup {[dir EXCEPT !.files = RemoveAt(@, i)] : i \in 1..Len(dir.files)}
    \cup {[dir EXCEPT !.dirs = Append(@, [name |-> DirLevels[level],
                                          dir |-> [files |-> <<f>>, dirs |-> <<>>]])] :
            f \in {g \in FileChoices :
                      room > 0 /\ level <= Len(DirLevels) /\ dir.dirs = <<>>}}
    \cup {[dir EXCEPT !.dirs = RemoveAt(@, i)] : i \in 1..Len(dir.dirs)}
    \cup UNION {{[dir EXCEPT !.dirs[i].dir = d] :
                    d \in DirEdits(dir.dirs[i].dir, level + 1, room)} :
                i \in 1..Len(dir.dirs)}

Missing == [kind |-> "missing", tree |-> EmptyDir]

NotADir == [kind |-> "file", tree |-> EmptyDir]

\* What project_root can name by the next scan, one change after r, in a
\* tree of at most n files.
RootsAfter(r, n) ==
    IF r.kind = "dir"
    THEN {[kind |-> "dir", tree |-> t] :
             t \in DirEdits(r.tree, 1, n - CountFiles(r.tree))}
         \cup {Missing, NotADir}
    ELSE IF r.kind = "none" THEN {}
    ELSE {Missing, NotADir, [kind |-> "dir", tree |-> EmptyDir]} \ {r}

NextRoots(r) == RootsAfter(r, MaxFiles)

\* The folders the file dialog returns here: an empty one, and one with a
\* single module.
Openable ==
    {[kind |-> "dir", tree |-> EmptyDir],
     [kind |-> "dir",
      tree |-> [files |-> <<[name |-> A_PY, content |-> Nested]>>, dirs |-> <<>>]]}

------------------------------------------------------------------------------
(* The scanner: scan() after scan() on one ImportScanner                     *)

Scanner ==
    [module_info |-> module_info, local_packages |-> local_packages,
     all_local_modules |-> all_local_modules]

\* ImportScanner(), as ImportTreeViewer.__init__ builds it too.
Init ==
    /\ root = [kind |-> "none", tree |-> EmptyDir]
    /\ module_info = EmptyInfo
    /\ local_packages = {}
    /\ all_local_modules = {}
    /\ lastOp = "init"
    /\ rIn = <<>> /\ rOut = <<>> /\ gIn = <<>> /\ gOut = <<>>
    /\ dot_str = <<>> /\ str_hashing = EmptyDict /\ pc = "idle"

\* scan() with project_root naming r.
Scan(r) ==
    LET st == scan(Scanner, r)
    IN  /\ module_info' = st.module_info
        /\ local_packages' = st.local_packages
        /\ all_local_modules' = st.all_local_modules
        /\ UNCHANGED <<rIn, rOut, gIn, gOut, exportVars>>

\* scan() once the caller has set project_root to a folder.
ScanFolder ==
    \E r \in Openable :
        /\ root' = r
        /\ lastOp' = "open"
        /\ Scan(r)

\* scan() with nothing changed on disk since the last scan.
ScanAgain ==
    /\ root' = root
    /\ lastOp' = "rescan"
    /\ Scan(root)

\* scan() after one change on disk under (or of) the project root.
ScanChanged ==
    \E r \in NextRoots(root) :
        /\ root' = r
        /\ lastOp' = "changed"
        /\ Scan(r)

NextScan == ScanFolder \/ ScanAgain \/ ScanChanged

SpecScan == Init /\ [][NextScan]_vars

------------------------------------------------------------------------------
(* The viewer: each handler with the graph it draws                         *)

\* The static half of generate_graph on a scanner whose module_info is
\* info: the text export_dot returns is handed to render_graphviz.  The sets
\* export_dot iterated for the text before are iterated in the same order
\* again, the process being the same; a set that text did not have takes any
\* order.
ExportStatic(info) ==
    LET lists == ExportLists(info)
    IN  \E fresh \in Hashings(lists \ DOMAIN str_hashing) :
            LET hashing == [list \in lists |->
                               IF list \in DOMAIN str_hashing
                               THEN str_hashing[list] ELSE fresh[list]]
            IN  /\ str_hashing' = hashing
                /\ dot_str' = <<export_dot(info, hashing)>>

\* generate_graph on a scanner whose module_info is info.  Where
\* build_interactive_graph and the load of its page raise nothing, the text
\* is exported in the same step; where they raise, the handler waits in
\* QMessageBox.warning with the text of the export before still in place.
generate_graph(info) ==
    \/ /\ pc' = "idle"
       /\ ExportStatic(info)
    \/ /\ pc' = "warning"
       /\ UNCHANGED <<dot_str, str_hashing>>

\* The body of rescan with project_root naming r: scan(), then
\* generate_graph().
ScanOn(r) ==
    LET st == scan(Scanner, r)
    IN  /\ module_info' = st.module_info
        /\ local_packages' = st.local_packages
        /\ all_local_modules' = st.all_local_modules
        /\ generate_graph(st.module_info)
        /\ UNCHANGED <<rIn, rOut, gIn, gOut>>

\* The handlers below start from the idle viewer: the warning is modal, and
\* no menu or toolbar action is taken while it is open.

\* open_project_folder: project_root is set to the chosen folder, then rescan.
OpenProjectFolder ==
    /\ pc = "idle"
    /\ \E r \in Openable :
          /\ root' = r
          /\ lastOp' = "open"
          /\ ScanOn(r)

\* rescan with nothing changed on disk since the last one.
Rescan ==
    /\ pc = "idle"
    /\ root' = root
    /\ lastOp' = "rescan"
    /\ ScanOn(root)

\* rescan after one change on disk under (or of) the project root.
RescanChanged ==
    /\ pc = "idle"
    /\ \E r \in RootsAfter(root, ViewFiles) :
          /\ root' = r
          /\ lastOp' = "changed"
          /\ ScanOn(r)

\* toggle_dependencies_view: generate_graph() on the scanner as it is.
ToggleDependenciesView ==
    /\ pc = "idle"
    /\ generate_graph(module_info)
    /\ UNCHANGED <<rIn, rOut, gIn, gOut, scannerVars>>

\* The warning is closed: generate_graph goes on to export_dot.
DismissWarning ==
    /\ pc = "warning"
    /\ pc' = "idle"
    /\ ExportStatic(module_info)
    /\ UNCHANGED <<rIn, rOut, gIn, gOut, scannerVars>>

Next ==
    \/ OpenProjectFolder
    \/ Rescan
    \/ RescanChanged
    \/ ToggleDependenciesView
    \/ DismissWarning

Spec == Init /\ [][Next]_vars

------------------------------------------------------------------------------
(* resolve_from_import on its own                                           *)

MaxSegments == 3    \* dotted segments of current_fqn

MaxLevel == 4       \* dots of a relative import, plus one

\* Segment names, the empty one included.
SegmentNames == {<<>>, <<"a">>, <<"b">>, <<"c">>}

RECURSIVE SeqsUpTo(_, _)
SeqsUpTo(S, n) ==
    IF n = 0 THEN {<<>>}
    ELSE LET shorter == SeqsUpTo(S, n - 1)
         IN  shorter \cup {Append(q[1], q[2]) : q \in shorter \X S}

\* node.module of an ast.ImportFrom: None or a dotted name.
ModuleClauses == {<<>>, <<<<"d">>>>, <<<<"x", ".", "y">>>>}

ResolveInputs ==
    [segs : SeqsUpTo(SegmentNames, MaxSegments) \ {<<>>},
     level : 0..MaxLevel,
     module : ModuleClauses]

InitResolve ==
    /\ rIn \in ResolveInputs
    /\ rOut = <<>>
    /\ gIn = <<>> /\ gOut = <<>>
    /\ dot_str = <<>> /\ str_hashing = EmptyDict /\ pc = "idle"
    /\ root = [kind |-> "none", tree |-> EmptyDir]
    /\ module_info = EmptyInfo
    /\ local_packages = {}
    /\ all_local_modules = {}
    /\ lastOp = "init"

\* The call resolve_from_import(".".join(segs), level, module).
CallResolve ==
    /\ rOut = <<>>
    /\ rOut' = <<resolve_from_import(JoinDot(rIn.segs), rIn.level, rIn.module)>>
    /\ UNCHANGED <<rIn, gIn, gOut, exportVars, scannerVars>>

NextResolve == CallResolve

SpecResolve == InitResolve /\ [][NextResolve]_vars

------------------------------------------------------------------------------
(* export_dot on its own                                                    *)

\* The roots within n changes of a folder the file dialog returns.
RECURSIVE RootsWithin(_)
RootsWithin(n) ==
    IF n = 0 THEN Openable
    ELSE LET nearer == RootsWithin(n - 1)
         IN  nearer \cup UNION {NextRoots(r) : r \in nearer}

\* An ImportScanner that has scanned some root.
InitExport ==
    \E r \in RootsWithin(MaxFiles) :
        LET st == scan([module_info |-> EmptyInfo, local_packages |-> {},
                        all_local_modules |-> {}], r)
        IN  /\ root = r
            /\ module_info = st.module_info
            /\ local_packages = st.local_packages
            /\ all_local_modules = st.all_local_modules
            /\ lastOp = "scan"
            /\ dot_str = <<>> /\ str_hashing = EmptyDict /\ pc = "idle"
            /\ rIn = <<>> /\ rOut = <<>> /\ gIn = <<>> /\ gOut = <<>>

\* The call export_dot(scanner), in a process of any str hashing.
CallExportDot ==
    /\ dot_str = <<>>
    /\ \E hashing \in Hashings(ExportLists(module_info)) :
          dot_str' = <<export_dot(module_info, hashing)>>
    /\ UNCHANGED <<rIn, rOut, gIn, gOut, str_hashing, pc, scannerVars>>

NextExport == CallExportDot

SpecExport == InitExport /\ [][NextExport]_vars

------------------------------------------------------------------------------
(* strongly_connected_components on its own                                 *)

MaxEdges == 4       \* edges of the graph

Nodes == {"A", "B", "C", "D"}

\* Every iteration order of every subset of Nodes.
Orders == InjSeqs(Nodes, Cardinality(Nodes))

\* The orders in which the successor set of the i-th key of ks may be
\* iterated when the graph may take budget more edges.
SuccOrders(ks, i, budget) ==
    IF i > Len(ks) THEN {<<>>} ELSE {s \in Orders : Len(s) <= budget}

\* The graph with keys ks, the i-th key's successors iterated as ss[i].
Graph(ks, ss) == [keys |-> ks, succ |-> [v \in Range(ks) |->
                     ss[CHOOSE i \in 1..Len(ks) : ks[i] = v]]]

InitSCC ==
    /\ \E ks \in Orders :
       \E s1 \in SuccOrders(ks, 1, MaxEdges) :
       \E s2 \in SuccOrders(ks, 2, MaxEdges - Len(s1)) :
       \E s3 \in SuccOrders(ks, 3, MaxEdges - Len(s1) - Len(s2)) :
       \E s4 \in SuccOrders(ks, 4, MaxEdges - Len(s1) - Len(s2) - Len(s3)) :
           gIn = Graph(ks, <<s1, s2, s3, s4>>)
    /\ gOut = <<>>
    /\ rIn = <<>> /\ rOut = <<>>
    /\ dot_str = <<>> /\ str_hashing = EmptyDict /\ pc = "idle"
    /\ root = [kind |-> "none", tree |-> EmptyDir]
    /\ module_info = EmptyInfo
    /\ local_packages = {}
    /\ all_local_modules = {}
    /\ lastOp = "init"

\* The call strongly_connected_components(gIn).
CallSCC ==
    /\ gOut = <<>>
    /\ gOut' = <<strongly_connected_components(gIn)>>
    /\ UNCHANGED <<gIn, rIn, rOut, exportVars, scannerVars>>

NextSCC == CallSCC

SpecSCC == InitSCC /\ [][NextSCC]_vars

------------------------------------------------------------------------------
(* Properties of strongly_connected_components                              *)

GraphNodes(g) == Range(g.keys) \cup UNION {Range(g.succ[v]) : v \in Range(g.keys)}

Successors(g, S) == UNION {Range(GraphGet(g, v)) : v \in S}

\* The nodes reachable from S, S included.
RECURSIVE Reachable(_, _)
Reachable(g, S) ==
    LET T == S \cup Successors(g, S)
    IN  IF T = S THEN S ELSE Reachable(g, T)

\* The strongly connected components of g: the classes of mutual reachability.
Components(g) ==
    LET reach == [v \in GraphNodes(g) |-> Reachable(g, {v})]
    IN  {{w \in reach[v] : v \in reach[w]} : v \in GraphNodes(g)}

\* sccs lists exactly the components of g with two or more nodes, each once
\* and with no node twice.
ReportsCycles(g, sccs) ==
    /\ {Range(sccs[i]) : i \in 1..Len(sccs)} = {K \in Components(g) : Cardinality(K) >= 2}
    /\ \A i, j \in 1..Len(sccs) : i # j => Range(sccs[i]) \cap Range(sccs[j]) = {}
    /\ \A i \in 1..Len(sccs) : Len(sccs[i]) = Cardinality(Range(sccs[i]))

\* C1: for every graph and every iteration order of its keys and successor
\* sets, strongly_connected_components returns exactly the strongly connected
\* components with two or more nodes, each once, no node in two of them, and
\* no component of one node, with or without a self-loop.
C1_SccReportsExactlyTheCycles ==
    gOut # <<>> => ReportsCycles(gIn, gOut[1])

\* A three-node cycle is reported while a node with a self-loop and a
\* successor that is no key are not.
C1_Witness ==
    /\ gOut # <<>>
    /\ Len(gOut[1]) = 1
    /\ Len(gOut[1][1]) = 3
    /\ \E v \in Range(gIn.keys) :
          v \in Range(gIn.succ[v]) /\ v \notin Range(gOut[1][1])

------------------------------------------------------------------------------
(* Properties of resolve_from_import                                        *)

\* seq without its last n elements, empty when it has no more than n.
DropLast(seq, n) == SubSeq(seq, 1, Max(Len(seq) - n, 0))

\* The result C8 states for current_fqn = ".".join(segs).
ResolvedAsStated(segs, level, module) ==
    LET enclosing == DropLast(segs, 1)
        pkgParts  == IF level > 1 THEN DropLast(enclosing, level - 1) ELSE enclosing
    IN  IF module # <<>>
        THEN JoinDot(Append(pkgParts, module[1]))
        ELSE JoinDot(pkgParts)

A_B_C == <<"a", ".", "b", ".", "c">>

\* C8: resolve_from_import drops the last segment of current_fqn, and level - 1
\* more when level > 1 (all of them when there are no more), then appends the
\* module clause when one is given; ("a.b.c", 1, "d") gives "a.b.d",
\* ("a.b.c", 2, "d") gives "a.d" and ("a.b.c", 0, "x.y") gives "a.b.x.y".
C8_ResolveFromImport ==
    /\ rOut # <<>> => rOut[1] = ResolvedAsStated(rIn.segs, rIn.level, rIn.module)
    /\ resolve_from_import(A_B_C, 1, <<<<"d">>>>) = <<"a", ".", "b", ".", "d">>
    /\ resolve_from_import(A_B_C, 2, <<<<"d">>>>) = <<"a", ".", "d">>
    /\ resolve_from_import(A_B_C, 0, <<<<"x", ".", "y">>>>)
           = <<"a", ".", "b", ".", "x", ".", "y">>

\* A level that removes more segments than the package path has, with a
\* module clause: the result is the clause alone.
C8_Witness ==
    /\ rOut # <<>>
    /\ Len(rIn.segs) = 3
    /\ rIn.level = 4
    /\ rIn.module # <<>>
    /\ rOut[1] = rIn.module[1]

------------------------------------------------------------------------------
(* Properties of ImportScanner                                              *)

Scanned == lastOp # "init"

ValidRoot == root.kind = "dir"

Records == {module_info.val[k] : k \in Range(module_info.keys)}

\* Every file of the tree: its path, the file, and whether its directory or
\* one above it holds pyvenv.cfg.
RECURSIVE FilesUnder(_, _, _)
FilesUnder(dir, rel, pruned) ==
    LET p == pruned \/ PYVENV_CFG \in FileNames(dir)
    IN  {[path |-> Append(rel, dir.files[i].name), file |-> dir.files[i], pruned |-> p] :
            i \in 1..Len(dir.files)}
        \cup UNION {FilesUnder(dir.dirs[j].dir, Append(rel, dir.dirs[j].name), p) :
                       j \in 1..Len(dir.dirs)}

SourceFiles == {f \in FilesUnder(root.tree, <<>>, FALSE) : IsSource(f.file)}

\* Number of occurrences of x in seq.
RECURSIVE Count(_, _)
Count(x, seq) ==
    IF seq = <<>> THEN 0
    ELSE (IF Head(seq) = x THEN 1 ELSE 0) + Count(x, Tail(seq))

\* sub is seq with some elements left out.
RECURSIVE IsSubsequence(_, _)
IsSubsequence(sub, seq) ==
    IF sub = <<>> THEN TRUE
    ELSE IF seq = <<>> THEN FALSE
    ELSE IF Head(sub) = Head(seq) THEN IsSubsequence(Tail(sub), Tail(seq))
    ELSE IsSubsequence(sub, Tail(seq))

\* C2: after a scan with the project root missing or not a directory the whole
\* project state is empty: module_info, local_packages, all_local_modules, the
\* graph and the cycle list.
C2_InvalidRootLeavesNothing ==
    (Scanned /\ ~ValidRoot) =>
        /\ module_info = EmptyInfo
        /\ local_packages = {}
        /\ all_local_modules = {}
        /\ \A hashing \in Hashings(InternalLists(module_info)) :
              /\ build_graph(module_info, hashing).keys = <<>>
              /\ find_cycles(module_info, hashing) = <<>>

\* C3: in every record internal_imports and external_imports are subsequences
\* of imports, every occurrence of a target is in exactly one of them, and no
\* target is in both.
C3_PartitionOfImports ==
    (Scanned /\ ValidRoot) =>
        \A data \in Records :
            /\ IsSubsequence(data.internal_imports, data.imports)
            /\ IsSubsequence(data.external_imports, data.imports)
            /\ \A t \in Range(data.imports) :
                  Count(t, data.internal_imports) + Count(t, data.external_imports)
                      = Count(t, data.imports)
            /\ Range(data.internal_imports) \cup Range(data.external_imports)
                  = Range(data.imports)
            /\ Range(data.internal_imports) \cap Range(data.external_imports) = {}

\* A record with a target imported twice and targets of both kinds.
C3_Witness ==
    /\ Scanned /\ ValidRoot
    /\ \E data \in Records :
          /\ \E t \in Range(data.imports) : Count(t, data.imports) = 2
          /\ data.internal_imports # <<>>
          /\ data.external_imports # <<>>

\* The text of t before its first ".".
FirstSegment(t) ==
    LET i == FirstDot(t, 1) IN IF i = 0 THEN t ELSE SubSeq(t, 1, i - 1)

AllFiles == FilesUnder(root.tree, <<>>, FALSE)

\* C4: a target is in internal_imports iff it is in all_local_modules or its
\* first dotted segment is in local_packages, and is in external_imports
\* otherwise; both sets are those of the whole tree as this scan found it,
\* directories with pyvenv.cfg included.
C4_InternalIffInCatalog ==
    (Scanned /\ ValidRoot) =>
        /\ all_local_modules = {to_fqn(f.path) : f \in {g \in AllFiles : IsSource(g.file)}}
        /\ local_packages =
              {JoinDot(SubSeq(f.path, 1, Len(f.path) - 1)) :
                  f \in {g \in AllFiles : g.file.name = INIT_PY}}
        /\ \A data \in Records : \A t \in Range(data.imports) :
              LET local == \/ t \in all_local_modules
                           \/ FirstSegment(t) \in local_packages
              IN  /\ t \in Range(data.internal_imports) <=> local
                  /\ t \in Range(data.external_imports) <=> ~local

\* A target is internal only because of a module in a pruned directory.
C4_Witness ==
    /\ Scanned /\ ValidRoot
    /\ \E data \in Records : \E t \in Range(data.internal_imports) :
          /\ FirstSegment(t) \notin local_packages
          /\ \A f \in AllFiles : (IsSource(f.file) /\ to_fqn(f.path) = t) => f.pruned

HasRecord(path) == \E data \in Records : data.path = path

\* C5: no source file in or below a directory holding pyvenv.cfg has a
\* ModuleRecord, and every other source file has one.
C5_RecordsAreTheUnprunedSources ==
    (Scanned /\ ValidRoot) =>
        \A f \in SourceFiles : HasRecord(f.path) <=> ~f.pruned

\* dir without its source files that cannot be read or parsed.
RECURSIVE WithoutBadFiles(_)
WithoutBadFiles(dir) ==
    [files |-> SelectSeq(dir.files, LAMBDA f : ~IsSource(f) \/ f.content.parsed),
     dirs  |-> [j \in 1..Len(dir.dirs) |->
                   [name |-> dir.dirs[j].name, dir |-> WithoutBadFiles(dir.dirs[j].dir)]]]

\* module_info as the walk over the tree without its bad files leaves it, the
\* catalog being that of the tree as it is.
InfoWithoutBadFiles ==
    categorize_imports(ScanWalk(WithoutBadFiles(root.tree), <<>>, EmptyInfo),
                       find_local_packages_and_modules(root.tree))

\* C6: every unreadable or unparsable source file outside the pruned
\* directories has a record with three empty lists, and every other source
\* file there has the record it would have were the bad files not walked.
C6_BadFilesCostNothing ==
    (Scanned /\ ValidRoot) =>
        \A f \in {g \in SourceFiles : ~g.pruned} :
            \E data \in Records :
                /\ data.path = f.path
                /\ IF f.file.content.parsed
                   THEN \E k \in Range(InfoWithoutBadFiles.keys) :
                            data = InfoWithoutBadFiles.val[k]
                   ELSE /\ data.imports = <<>>
                        /\ data.internal_imports = <<>>
                        /\ data.external_imports = <<>>

\* The import targets of a statement list in the order of the source text.
RECURSIVE SourceOrder(_, _)
SourceOrder(body, fqn) ==
    IF body = <<>> THEN <<>>
    ELSE LET node == Head(body)
             here == IF node.kind = "Import" THEN node.names
                     ELSE IF node.kind = "ImportFrom"
                     THEN <<resolve_from_import(fqn, node.level, node.module)>>
                     ELSE SourceOrder(node.body, fqn)
         IN  here \o SourceOrder(Tail(body), fqn)

\* C7: the raw import list of a parsed file holds its import targets in the
\* order the statements occur in the source text, nested statements included.
C7_ImportsInSourceOrder ==
    (Scanned /\ ValidRoot) =>
        \A k \in Range(module_info.keys) : \A f \in SourceFiles :
            (f.path = module_info.val[k].path /\ f.file.content.parsed) =>
                module_info.val[k].imports = SourceOrder(f.file.content.body, k)

\* The edges C9 states: from each module to its internal imports.
InternalEdges(v) ==
    IF v \in Range(module_info.keys)
    THEN Range(module_info.val[v].internal_imports) ELSE {}

\* C9: whatever the str hashing of the process, build_graph has the catalog's FQNs as keys and each module's internal
\* imports as its successors, no target that is external only is an edge
\* target, and find_cycles reports the cycles of that graph.
C9_GraphIsInternalImports ==
    /\ \A g \in {build_graph(module_info, hashing) :
                    hashing \in Hashings(InternalLists(module_info))} :
          /\ Range(g.keys) = Range(module_info.keys)
          /\ DOMAIN g.succ = Range(module_info.keys)
          /\ \A k \in Range(module_info.keys) :
                /\ Range(g.succ[k]) = InternalEdges(k)
                /\ \A j \in Range(module_info.keys) :
                      Range(g.succ[k]) \cap
                          (Range(module_info.val[j].external_imports)
                              \ Range(module_info.val[j].internal_imports)) = {}
    /\ \A cycles \in {find_cycles(module_info, hashing) :
                         hashing \in Hashings(InternalLists(module_info))} :
          ReportsCycles([keys |-> module_info.keys,
                         succ |-> [k \in Range(module_info.keys) |->
                                      Distinct(module_info.val[k].internal_imports, <<>>)]],
                        cycles)

\* Modules import each other, one of them an external target too, and the
\* successors of a module come in an order that depends on the str hashing.
C9_Witness ==
    /\ Scanned /\ ValidRoot
    /\ \A hashing \in Hashings(InternalLists(module_info)) :
          Len(find_cycles(module_info, hashing)) = 1
    /\ \E h1, h2 \in Hashings(InternalLists(module_info)) :
          build_graph(module_info, h1) # build_graph(module_info, h2)
    /\ \E data \in Records : data.external_imports # <<>>

\* C10: a second scan in a row of an unchanged tree, in the same process,
\* leaves the snapshot (modules and cycles, each in the same order),
\* local_packages and all_local_modules as the first scan left them.
C10_RescanChangesNothing ==
    Scanned =>
        LET again == scan(Scanner, root)
        IN  /\ \A hashing \in Hashings(InternalLists(module_info)
                                             \cup InternalLists(again.module_info)) :
                  Snapshot(again.module_info, hashing) = Snapshot(module_info, hashing)
            /\ again.local_packages = local_packages
            /\ again.all_local_modules = all_local_modules

\* A rescan of a tree with records, a package and a cycle whose members are
\* listed in an order that depends on the str hashing.
C10_Witness ==
    /\ lastOp = "rescan" /\ ValidRoot
    /\ Len(module_info.keys) >= 2
    /\ \E h1, h2 \in Hashings(InternalLists(module_info)) :
          /\ find_cycles(module_info, h1) # <<>>
          /\ find_cycles(module_info, h1) # find_cycles(module_info, h2)
    /\ local_packages # {}

------------------------------------------------------------------------------
(* Properties of export_dot                                                 *)

\* The first index i >= from with s[i] = ch, 0 when there is none.
RECURSIVE IndexOf(_, _, _)
IndexOf(s, ch, from) ==
    IF from > Len(s) THEN 0
    ELSE IF s[from] = ch THEN from
    ELSE IndexOf(s, ch, from + 1)

\* The lines of text, read back at each line break.
RECURSIVE SplitLines(_)
SplitLines(text) ==
    LET i == IndexOf(text, "\n", 1)
    IN  IF i = 0 THEN <<text>>
        ELSE <<SubSeq(text, 1, i - 1)>> \o SplitLines(SubSeq(text, i + 1, Len(text)))

DotLines == IF dot_str = <<>> THEN {} ELSE Range(SplitLines(dot_str[1]))

\* The quoted name a line starts with, and what follows it from its closing
\* quote on.
QuotedHead(line) ==
    LET j == IF Len(line) > 0 /\ line[1] = "\"" THEN IndexOf(line, "\"", 2) ELSE 0
    IN  [ok |-> j > 0,
         name |-> IF j > 0 THEN SubSeq(line, 2, j - 1) ELSE <<>>,
         rest |-> IF j > 0 THEN SubSeq(line, j, Len(line)) ELSE <<>>]

StartsWith(s, pre) == Len(s) >= Len(pre) /\ SubSeq(s, 1, Len(pre)) = pre

\* line read as a node declaration: "name" [... fillcolor="color"];
ReadNode(line) ==
    LET h == QuotedHead(line)
        tail == SubSeq(h.rest, Len(NODE_ATTRS_OPEN) + 1, Len(h.rest))
        j == IndexOf(tail, "\"", 1)
        ok == /\ h.ok
              /\ StartsWith(h.rest, NODE_ATTRS_OPEN)
              /\ j > 0
              /\ SubSeq(tail, j, Len(tail)) = NODE_ATTRS_CLOSE
    IN  [ok |-> ok,
         name |-> h.name,
         color |-> IF ok THEN SubSeq(tail, 1, j - 1) ELSE <<>>]

\* line read as an edge: "src" -> "dst";
ReadEdge(line) ==
    LET h == QuotedHead(line)
        tail == SubSeq(h.rest, Len(ARROW) + 1, Len(h.rest))
        j == IndexOf(tail, "\"", 1)
        ok == /\ h.ok
              /\ StartsWith(h.rest, ARROW)
              /\ j > 0
              /\ SubSeq(tail, j, Len(tail)) = EDGE_CLOSE
    IN  [ok |-> ok,
         src |-> h.name,
         dst |-> IF ok THEN SubSeq(tail, 1, j - 1) ELSE <<>>]

\* The nodes the text declares, each with its fill colour.
DeclaredNodes ==
    {[name |-> ReadNode(l).name, color |-> ReadNode(l).color] :
        l \in {m \in DotLines : ReadNode(m).ok}}

DeclaredNames == {n.name : n \in DeclaredNodes}

\* The edges the text has.
DeclaredEdges ==
    {<<ReadEdge(l).src, ReadEdge(l).dst>> : l \in {m \in DotLines : ReadEdge(m).ok}}

Exported == Scanned /\ dot_str # <<>>

\* The members of the cycles of the internal-only graph.
CycleMembers ==
    LET g == [keys |-> module_info.keys,
              succ |-> [k \in Range(module_info.keys) |->
                           Distinct(module_info.val[k].internal_imports, <<>>)]]
    IN  UNION {K \in Components(g) : Cardinality(K) >= 2}

ExternalTargets == UNION {Range(data.external_imports) : data \in Records}

\* The class of a node by which C11 colours it.
NodeClass(name) ==
    IF name \in CycleMembers THEN "cycle"
    ELSE IF name \in Range(module_info.keys) THEN "internal"
    ELSE IF name \in ExternalTargets THEN "external"
    ELSE "other"

\* C11: every node export_dot declares has one fill colour, and among cycle
\* members, internal modules in no cycle and external targets two nodes have
\* the same colour exactly when they are of the same class; so an external
\* target never has the colour of an internal module that is in no cycle.
C11_ThreeColoursByClass ==
    Exported =>
        /\ \A n1, n2 \in DeclaredNodes : n1.name = n2.name => n1.color = n2.color
        /\ \A n \in DeclaredNodes : n.color # <<>>
        /\ \A n1, n2 \in DeclaredNodes :
              (NodeClass(n1.name) # "other" /\ NodeClass(n2.name) # "other") =>
                  (n1.color = n2.color <=> NodeClass(n1.name) = NodeClass(n2.name))

\* A package-entry module: "__init__", or a name ending in ".__init__".
IsPackageEntry(k) == k = INIT \/ EndsWith(k, <<".">> \o INIT)

\* The modules C12 has displayed.
DisplayedModules ==
    {k \in Range(module_info.keys) :
        ~(IsPackageEntry(k) /\ module_info.val[k].imports = <<>>)}

\* The (source, target) import pairs.
ImportPairs ==
    {<<k, t>> : k \in Range(module_info.keys), t \in UNION {Range(data.imports) : data \in Records}}
        \cap UNION {{<<k, t>> : t \in Range(module_info.val[k].imports)} :
                       k \in Range(module_info.keys)}

\* C12: the nodes export_dot declares are the modules, except package-entry
\* modules without imports, and the external targets, and nothing else; the
\* edges are the import pairs with both ends among these nodes.
C12_NodesAndEdgesOfTheExport ==
    Exported =>
        LET nodes == DisplayedModules \cup ExternalTargets
        IN  /\ DeclaredNames = nodes
            /\ DeclaredEdges = {e \in ImportPairs : e[1] \in nodes /\ e[2] \in nodes}

====
